---- MODULE Spec2Model ----
(***************************************************************************)
(* Model of the SOLEM BLIP Bluetooth LE driver, class SolemBLIP of          *)
(* src/hacking/solem_bleak.py.                                              *)
(*                                                                         *)
(* The state is the fields of one SolemBLIP instance, the BLE links         *)
(* (BleakClient objects) it has created, the log of characteristic writes   *)
(* issued on those links, and the position of every caller task inside the  *)
(* coroutine it is running.  A coroutine runs atomically between two        *)
(* awaits; each action below is one such segment, ending with the link      *)
(* operation it awaits.  The outcome of a link operation (success or a      *)
(* transport error) is chosen by the environment.                           *)
(***************************************************************************)
EXTENDS Integers, Sequences, FiniteSets, TLC

(* ------------------------------ bounds -------------------------------- *)
MaxStation == 4      \* station arguments 1..MaxStation (and 256) are tried
MaxMinutes == 2      \* minutes arguments 0..MaxMinutes (and 1092, 1093)
MaxDays    == 1      \* days arguments 0..MaxDays (and 65534, 65536)
MaxProgram == 1      \* program arguments 0..MaxProgram (and 65534, 65536)
MaxRetries == 2      \* retries arguments 0..MaxRetries are tried
MaxLinks   == 2      \* BleakClient objects created in one behaviour
MaxWire    == 3      \* characteristic writes kept in the write log: a
                     \* command starts only while two more fit
MaxNotifLen == 18    \* notification buffers are at most this long

(* ------------------------- program constants --------------------------- *)
U16Max == 65535      \* struct format 'H'
U8Max  == 255        \* struct format 'B'
None   == "None"
KNOWN_WRITE_UUID  == "108b0002-eab5-bc09-d0ea-0b8f467ce8ee"
KNOWN_NOTIFY_UUID == "108b0003-eab5-bc09-d0ea-0b8f467ce8ee"
DISCOVERED_WRITE_UUID  == "discovered-write"
DISCOVERED_NOTIFY_UUID == "discovered-notify"
NoLink == 0          \* self.client = None

VARIABLES
  debug,                 \* self.__debug
  connected,             \* self.connected
  client,                \* self.client: NoLink or the id of a BleakClient
  name,                  \* self.name
  WRITE_CHARACTERISTIC_UUID,
  NOTIFY_CHARACTERISTIC_UUID,
  notificationsEnabled,  \* self.__notificationsEnabled
  nextLink,              \* number of BleakClient objects created so far
  linkUp,                \* the BleakClient objects whose link is established
  subs,                  \* per BleakClient: handler subscribed on notify char
  wire,                  \* log of write_gatt_char calls since the session
                         \* was last quiescent, oldest first
  tasks,                 \* the caller tasks
  last_notification,     \* self._last_notification
  heard,                 \* the kinds of buffer status_handler was given
                         \* since self._last_notification was last reset
  analysis,              \* what the last handler invocation read and said
  pc,                    \* per task: position in its coroutine
  op,                    \* per task: the call it is running and its arguments
  cmd,                   \* per task: local cmd of the command method
  attempt,               \* per task: loop variable of connect
  result,                \* per task: how its last call ended
  call                   \* per task: what the current call has done so far

session == <<debug, connected, client, name, WRITE_CHARACTERISTIC_UUID,
             NOTIFY_CHARACTERISTIC_UUID, notificationsEnabled>>
links   == <<nextLink, linkUp, subs>>
capture == <<last_notification, heard, analysis>>
locals  == <<pc, op, cmd, attempt, result, call>>
vars    == <<debug, connected, client, name, WRITE_CHARACTERISTIC_UUID,
             NOTIFY_CHARACTERISTIC_UUID, notificationsEnabled,
             nextLink, linkUp, subs, wire, tasks, last_notification,
             heard, analysis, pc, op, cmd, attempt, result, call>>

(* --------------------------- struct.pack ------------------------------- *)
\* The bytes of v in a field of n bytes, least significant byte first.
LittleEndian(v, n) == [i \in 1..n |-> (v \div (256 ^ (i - 1))) % 256]
\* Big-endian bytes of v in a field of n bytes.
BigEndian(v, n) == [i \in 1..n |-> (v \div (256 ^ (n - i))) % 256]

\* struct.pack(">...", vals): fmt gives the width in bytes of every field
\* (H = 2, B = 1).  A value outside the field's range raises struct.error.
RECURSIVE PackBytes(_, _)
PackBytes(fmt, vals) ==
  IF fmt = <<>> THEN <<>>
  ELSE BigEndian(Head(vals), Head(fmt)) \o PackBytes(Tail(fmt), Tail(vals))

FieldOk(v, n) == v >= 0 /\ v <= (IF n = 2 THEN U16Max ELSE U8Max)

Pack(fmt, vals) ==
  IF \A i \in 1..Len(fmt) : FieldOk(vals[i], fmt[i])
  THEN [ok |-> TRUE,  bytes |-> PackBytes(fmt, vals)]
  ELSE [ok |-> FALSE, bytes |-> <<>>]

HBHH  == <<2, 1, 2, 2>>
HBBBH == <<2, 1, 1, 1, 2>>

OnFrame            == Pack(HBHH, <<12549, 160, 1, 0>>)
OffFrame           == Pack(HBHH, <<12549, 192, 0, 0>>)
StopFrame          == Pack(HBHH, <<12549, 21, 255, 0>>)
\* offDays packing the frame of off(): the days argument is dropped.
OffDaysFrameNoDays(days) == Pack(HBHH, <<12549, 192, 0, 0>>)
OffDaysFrame(days) == Pack(HBHH, <<12549, 192, days, 0>>)
RunProgramFrame(p) == Pack(HBHH, <<12549, 20, p, 0>>)
\* startWateringAll packing the minutes without converting them to seconds.
AllFrameMinutes(minutes) == Pack(HBHH, <<12549, 17, 0, minutes>>)
AllFrame(minutes)  == Pack(HBHH, <<12549, 17, 0, minutes * 60>>)
\* startWatering packing with the format of startWateringAll: the station
\* takes the two-byte argument slot.
StationFrameWide(station, minutes) ==
  Pack(HBHH, <<12549, 18, station, minutes * 60>>)
StationFrame(station, minutes) ==
  Pack(HBBBH, <<12549, 18, station, 0, minutes * 60>>)
\* The commit frame packed with the bytes of 0x3b00 in the wrong order.
CommitFrameSwapped == <<0, 59>>
CommitFrame        == Pack(<<2>>, <<15104>>).bytes

(* ------------------------- caller-task bookkeeping --------------------- *)
NoArgs == [station |-> 0, minutes |-> 0, days |-> 0, program |-> 0,
           retries |-> 0]
NoOp   == [name |-> "none", args |-> NoArgs]
Op(n, a) == [name |-> n, args |-> a]

CommandNames == {"on", "off", "offDays", "stopWatering", "startWatering",
                 "startWateringAll", "runProgram"}

\* The frame the command method of call o packs.
FrameOf(o) ==
  CASE o.name = "on"               -> OnFrame
    [] o.name = "off"              -> OffFrame
    [] o.name = "stopWatering"     -> StopFrame
    [] o.name = "offDays"          -> OffDaysFrame(o.args.days)
    [] o.name = "runProgram"       -> RunProgramFrame(o.args.program)
    [] o.name = "startWateringAll" -> AllFrame(o.args.minutes)
    [] o.name = "startWatering"    -> StationFrame(o.args.station,
                                                   o.args.minutes)

\* The value of a call that has not returned a status dictionary.
NoStatus == [active |-> FALSE, mode |-> "none", mode_code |-> -1,
             timer_remaining |-> -1, timer_minutes |-> -1,
             timer_seconds |-> -1, sub_status_code |-> -1,
             raw_response |-> <<>>]

\* What one call has done so far: characteristic writes attempted, link
\* connection attempts made, back-off sleeps taken, the attempt on which the
\* link was first established (0: never), whether characteristic discovery
\* raised, whether __writeCommand passed both of its guards; for disconnect,
\* the handler that was subscribed on the session's link when it was called,
\* whether stop_notify was called, whether it raised and whether the link's
\* disconnect was called; for getStatus, the handler that was subscribed
\* when it was called, the byte offsets it read from the captured buffer
\* and the dictionary it returned.
ZeroCall == [nwrites |-> 0, nattempts |-> 0, nsleeps |-> 0, firstOk |-> 0,
             discRaised |-> FALSE, passedGuards |-> FALSE,
             subAtEntry |-> None, unsubTried |-> FALSE,
             unsubFailed |-> FALSE, teardownTried |-> FALSE,
             reads |-> {}, returned |-> NoStatus]

Ready(t) == pc[t] = "idle"

\* The call of task t ends (returns or raises) with outcome r.
Finish(t, o, c, r, cl) ==
  /\ pc'      = [pc EXCEPT ![t] = "done"]
  /\ op'      = [op EXCEPT ![t] = o]
  /\ cmd'     = [cmd EXCEPT ![t] = c]
  /\ attempt' = [attempt EXCEPT ![t] = 0]
  /\ result'  = [result EXCEPT ![t] = r]
  /\ call'    = [call EXCEPT ![t] = cl]

\* The call of task t suspends at an await and will resume at position p.
Suspend(t, p, o, c, a, cl) ==
  /\ pc'      = [pc EXCEPT ![t] = p]
  /\ op'      = [op EXCEPT ![t] = o]
  /\ cmd'     = [cmd EXCEPT ![t] = c]
  /\ attempt' = [attempt EXCEPT ![t] = a]
  /\ result'  = [result EXCEPT ![t] = "none"]
  /\ call'    = [call EXCEPT ![t] = cl]

(* ------------------------------ BLE link ------------------------------- *)
\* Outcomes of an operation on BleakClient l: an operation on a link that is
\* not established raises; on an established link it succeeds or raises.
LinkOutcomes(l) == IF l \in linkUp THEN BOOLEAN ELSE {FALSE}

\* client.write_gatt_char(uuid, data) issued by task t on BleakClient l.
\* The log keeps, with the write, what the session held when it was issued.
WriteGattChar(t, l, data, ok) ==
  wire' = Append(wire, [link |-> l, data |-> data, ok |-> ok, task |-> t,
                        connected |-> connected, client |-> client])

(* ------------------------- __writeCommand ------------------------------ *)
\* A write_gatt_char that raises inside __writeCommand, which has no
\* handler: but here the exception is dropped and the sequence goes on.
WriteSwallowed(t, o, c, cl) == Suspend(t, "commit", o, c, 0, cl)
\* A write_gatt_char that raises inside __writeCommand: nothing catches the
\* exception, in __writeCommand or in the method that called it.
WriteRaised(t, o, c, cl) == Finish(t, o, c, "TransportError", cl)

\* The BleakClient stored when the command write was issued.
CommitClientCached(t) ==
  LET w == SelectSeq(wire, LAMBDA e : e.task = t) IN w[Len(w)].link
\* The BleakClient the commit write goes to: self.client, read again.
CommitClient(t) == client

\* __writeCommand returns to the method that called it: a command method
\* returns in turn, getStatus goes on to put the handler back.
Sent(t, cl) ==
  IF op[t].name = "getStatus"
  THEN Suspend(t, "restoring", op[t], cmd[t], 0, cl)
  ELSE Finish(t, op[t], cmd[t], "ok", cl)

\* The first test of __writeCommand left out.
DeviceNotConnectedNever == FALSE
\* The first test of __writeCommand: "not self.connected or not self.client".
DeviceNotConnected == ~connected \/ client = NoLink

\* __writeCommand(cmd) from its entry to the await of the command write
\* (and the settle sleep that follows it).
WriteCommand(t, o, c) ==
  /\ UNCHANGED <<session, links, tasks, capture>>
  /\ IF DeviceNotConnected
     THEN /\ Finish(t, o, c, "NotConnected", call[t])
          /\ UNCHANGED wire
     ELSE IF WRITE_CHARACTERISTIC_UUID = None
     THEN /\ Finish(t, o, c, "WriteCharNotFound", call[t])
          /\ UNCHANGED wire
     ELSE /\ Len(wire) + 2 <= MaxWire
          /\ \E ok \in LinkOutcomes(client) :
               /\ WriteGattChar(t, client, c, ok)
               /\ LET cl == [call[t] EXCEPT !.nwrites = 1,
                                            !.passedGuards = TRUE]
                  IN IF ok THEN Suspend(t, "commit", o, c, 0, cl)
                           ELSE WriteRaised(t, o, c, cl)

\* __writeCommand after the settle sleep: the commit write, the second
\* settle sleep and the return.
WriteCommit(t) ==
  /\ pc[t] = "commit"
  /\ UNCHANGED <<session, links, tasks, capture>>
  /\ IF CommitClient(t) = NoLink
     THEN /\ Finish(t, op[t], cmd[t], "AttributeError", call[t])
          /\ UNCHANGED wire
     ELSE \E ok \in LinkOutcomes(CommitClient(t)) :
            /\ WriteGattChar(t, CommitClient(t), CommitFrame, ok)
            /\ LET cl == [call[t] EXCEPT !.nwrites = @ + 1]
               IN IF ok THEN Sent(t, cl)
                        ELSE WriteRaised(t, op[t], cmd[t], cl)

(* --------------------------- command methods --------------------------- *)
\* The floor test written with the wrong bound: zero minutes pass it.
BelowMinimumOffByOne(minutes) == minutes < 0
\* The test "if minutes < 1" of startWateringAll and startWatering.
BelowMinimum(minutes) == minutes < 1

\* A command method once its frame f is packed: struct.error when a value
\* does not fit its field, otherwise __writeCommand(cmd).
Command(t, o, f) ==
  IF f.ok
  THEN WriteCommand(t, o, f.bytes)
  ELSE /\ Finish(t, o, <<>>, "StructError", ZeroCall)
       /\ UNCHANGED <<session, links, wire, tasks, capture>>

on(t)  == Ready(t) /\ Command(t, Op("on", NoArgs), OnFrame)

off(t) == Ready(t) /\ Command(t, Op("off", NoArgs), OffFrame)

stopWatering(t) == Ready(t) /\ Command(t, Op("stopWatering", NoArgs), StopFrame)

offDays(t, days) ==
  /\ Ready(t)
  /\ Command(t, Op("offDays", [NoArgs EXCEPT !.days = days]),
             OffDaysFrame(days))

runProgram(t, program) ==
  /\ Ready(t)
  /\ Command(t, Op("runProgram", [NoArgs EXCEPT !.program = program]),
             RunProgramFrame(program))

startWateringAll(t, minutes) ==
  /\ Ready(t)
  /\ LET o == Op("startWateringAll", [NoArgs EXCEPT !.minutes = minutes])
     IN IF BelowMinimum(minutes)
        THEN /\ Finish(t, o, <<>>, "ValueError", ZeroCall)
             /\ UNCHANGED <<session, links, wire, tasks, capture>>
        ELSE Command(t, o, AllFrame(minutes))

startWatering(t, station, minutes) ==
  /\ Ready(t)
  /\ LET o == Op("startWatering", [NoArgs EXCEPT !.station = station,
                                                 !.minutes = minutes])
     IN IF BelowMinimum(minutes)
        THEN /\ Finish(t, o, <<>>, "ValueError", ZeroCall)
             /\ UNCHANGED <<session, links, wire, tasks, capture>>
        ELSE Command(t, o, StationFrame(station, minutes))

(* ------------------------------ connect -------------------------------- *)
\* The except clause of connect's loop, for the attempt numbered a (from 0):
\* sleep and go round again, or raise after the last attempt.
ConnectFailed(t, o, a, cl) ==
  IF a < o.args.retries - 1
  THEN Suspend(t, "backoff", o, <<>>, a,
               [cl EXCEPT !.nsleeps = @ + 1])
  ELSE Finish(t, o, <<>>, "ConnectionFailed", cl)

\* One iteration of connect's loop up to the await of client.connect(): a
\* new BleakClient replaces self.client and its link is established or not.
ConnectAttempt(t, o, a, cl) ==
  /\ client'   = nextLink + 1
  /\ nextLink' = nextLink + 1
  /\ UNCHANGED <<subs, wire, tasks, capture, debug, name, WRITE_CHARACTERISTIC_UUID,
                 NOTIFY_CHARACTERISTIC_UUID, notificationsEnabled>>
  /\ LET cl1 == [cl EXCEPT !.nattempts = @ + 1]
     IN \E ok \in BOOLEAN :
          IF ok
          THEN /\ linkUp' = linkUp \cup {nextLink + 1}
               /\ Suspend(t, "established", o, <<>>, a,
                          [cl1 EXCEPT !.firstOk =
                             IF @ = 0 THEN cl1.nattempts ELSE @])
          ELSE /\ linkUp' = linkUp
               /\ ConnectFailed(t, o, a, cl1)

\* connect(retries, sleep_time) from its entry to the first await.
connect(t, retries) ==
  /\ Ready(t)
  /\ nextLink + retries <= MaxLinks
  /\ connected' = FALSE
  /\ LET o == Op("connect", [NoArgs EXCEPT !.retries = retries])
     IN IF retries <= 0
        THEN /\ Finish(t, o, <<>>, "ok", ZeroCall)
             /\ UNCHANGED <<debug, client, name, WRITE_CHARACTERISTIC_UUID,
                            NOTIFY_CHARACTERISTIC_UUID, notificationsEnabled,
                            links, wire, tasks, capture>>
        ELSE ConnectAttempt(t, o, 0, ZeroCall)

\* connect after a back-off sleep: the next iteration of the loop.
ConnectRetry(t) ==
  /\ pc[t] = "backoff"
  /\ UNCHANGED connected
  /\ ConnectAttempt(t, op[t], attempt[t] + 1, call[t])

\* connect's loop without its break: after a successful attempt the loop
\* goes round again while attempts remain.
ConnectSucceededNoBreak(t) ==
  IF attempt[t] < op[t].args.retries - 1
  THEN Suspend(t, "backoff", op[t], <<>>, attempt[t], call[t])
  ELSE Finish(t, op[t], <<>>, "ok", call[t])
\* The end of connect's try block: break leaves the loop and connect returns.
ConnectSucceeded(t) == Finish(t, op[t], <<>>, "ok", call[t])

\* discover_characteristics(): raises when not connected, or when the
\* enumeration of the services raises; otherwise records the first write and
\* the first notify characteristic unless one is already recorded.
DiscoverOutcomes == IF client = NoLink THEN {FALSE} ELSE BOOLEAN

\* connect after client.connect() returned: the rest of the try block.
ConnectEstablished(t) ==
  /\ pc[t] = "established"
  /\ connected' = TRUE
  /\ UNCHANGED <<debug, client, notificationsEnabled, links, wire, tasks, capture>>
  /\ IF debug
     THEN \E found \in DiscoverOutcomes :
            IF found
            THEN /\ WRITE_CHARACTERISTIC_UUID' =
                      IF WRITE_CHARACTERISTIC_UUID = None
                      THEN DISCOVERED_WRITE_UUID
                      ELSE WRITE_CHARACTERISTIC_UUID
                 /\ NOTIFY_CHARACTERISTIC_UUID' =
                      IF NOTIFY_CHARACTERISTIC_UUID = None
                      THEN DISCOVERED_NOTIFY_UUID
                      ELSE NOTIFY_CHARACTERISTIC_UUID
                 /\ name' = "SOLEM BLIP"
                 /\ ConnectSucceeded(t)
            ELSE /\ UNCHANGED <<name, WRITE_CHARACTERISTIC_UUID,
                                NOTIFY_CHARACTERISTIC_UUID>>
                 /\ ConnectFailed(t, op[t], attempt[t],
                                  [call[t] EXCEPT !.discRaised = TRUE])
     ELSE /\ WRITE_CHARACTERISTIC_UUID'  = KNOWN_WRITE_UUID
          /\ NOTIFY_CHARACTERISTIC_UUID' = KNOWN_NOTIFY_UUID
          /\ name' = "SOLEM BLIP"
          /\ ConnectSucceeded(t)

(* --------------------------- notifications ----------------------------- *)
\* enableNotifications() from its entry to the await of start_notify.
enableNotifications(t) ==
  /\ Ready(t)
  /\ UNCHANGED <<session, nextLink, linkUp, wire, tasks, capture>>
  /\ LET o == Op("enableNotifications", NoArgs)
     IN IF ~connected \/ client = NoLink
        THEN /\ Finish(t, o, <<>>, "NotConnected", ZeroCall)
             /\ UNCHANGED subs
        ELSE IF NOTIFY_CHARACTERISTIC_UUID = None
        THEN /\ Finish(t, o, <<>>, "ok", ZeroCall)
             /\ UNCHANGED subs
        ELSE \E ok \in LinkOutcomes(client) :
               IF ok
               THEN /\ subs' = [subs EXCEPT ![client] = "notification_handler"]
                    /\ Suspend(t, "subscribed", o, <<>>, 0, ZeroCall)
               ELSE /\ UNCHANGED subs
                    /\ Finish(t, o, <<>>, "TransportError", ZeroCall)

\* enableNotifications() after start_notify returned.
EnableNotificationsDone(t) ==
  /\ pc[t] = "subscribed"
  /\ notificationsEnabled' = TRUE
  /\ UNCHANGED <<debug, connected, client, name, WRITE_CHARACTERISTIC_UUID,
                 NOTIFY_CHARACTERISTIC_UUID, links, wire, tasks, capture>>
  /\ Finish(t, op[t], <<>>, "ok", call[t])

\* client.stop_notify(uuid) on BleakClient l: succeeds only for a known
\* characteristic on an established link.
StopNotifyOutcomes(l) ==
  IF NOTIFY_CHARACTERISTIC_UUID = None THEN {FALSE} ELSE LinkOutcomes(l)

\* disableNotifications() from its entry to the await of stop_notify.
disableNotifications(t) ==
  /\ Ready(t)
  /\ UNCHANGED <<session, nextLink, linkUp, wire, tasks, capture>>
  /\ LET o == Op("disableNotifications", NoArgs)
     IN IF ~connected \/ client = NoLink
        THEN /\ Finish(t, o, <<>>, "ok", ZeroCall)
             /\ UNCHANGED subs
        ELSE \E ok \in StopNotifyOutcomes(client) :
               IF ok
               THEN /\ subs' = [subs EXCEPT ![client] = None]
                    /\ Suspend(t, "unsubscribed", o, <<>>, 0, ZeroCall)
               ELSE /\ UNCHANGED subs
                    /\ Finish(t, o, <<>>, "TransportError", ZeroCall)

\* disableNotifications() after stop_notify returned.
DisableNotificationsDone(t) ==
  /\ pc[t] = "unsubscribed"
  /\ notificationsEnabled' = FALSE
  /\ UNCHANGED <<debug, connected, client, name, WRITE_CHARACTERISTIC_UUID,
                 NOTIFY_CHARACTERISTIC_UUID, links, wire, tasks, capture>>
  /\ Finish(t, op[t], <<>>, "ok", call[t])

(* ----------------------------- disconnect ------------------------------ *)
\* disconnect without its except clause: the exception reaches the caller.
NotCaught(t, o, cl) == Finish(t, o, <<>>, "TransportError", cl)
\* The except clause of disconnect: an exception raised inside the try block
\* is caught (and printed in debug mode) and disconnect carries on.
Caught(t, o, cl) == Suspend(t, "teardown", o, <<>>, 0, cl)

\* await self.client.disconnect() inside disconnect's try block:
\* AttributeError when self.client is None; otherwise the link is torn down,
\* or the teardown raises and the link is left up or down.
Teardown(t, o, cl) ==
  /\ UNCHANGED <<nextLink, subs>>
  /\ IF client = NoLink
     THEN /\ UNCHANGED linkUp
          /\ Caught(t, o, cl)
     ELSE \E ok \in LinkOutcomes(client), stays \in BOOLEAN :
            LET tried == [cl EXCEPT !.teardownTried = TRUE]
            IN IF ok
               THEN /\ linkUp' = linkUp \ {client}
                    /\ Suspend(t, "teardown", o, <<>>, 0, tried)
               ELSE /\ linkUp' = IF stays THEN linkUp
                                           ELSE linkUp \ {client}
                    /\ Caught(t, o, tried)

\* disconnect() from its entry to its first await, or to its end when it
\* awaits nothing.
disconnect(t) ==
  /\ Ready(t)
  /\ UNCHANGED <<debug, name, WRITE_CHARACTERISTIC_UUID,
                 NOTIFY_CHARACTERISTIC_UUID, notificationsEnabled, wire,
                 tasks, capture>>
  /\ LET o == Op("disconnect", NoArgs)
     IN IF connected /\ client # NoLink
        THEN /\ UNCHANGED <<connected, client>>
             /\ LET cl == [ZeroCall EXCEPT !.subAtEntry = subs[client]]
                IN IF notificationsEnabled
                   THEN /\ UNCHANGED <<nextLink, linkUp>>
                        /\ \E ok \in StopNotifyOutcomes(client) :
                             LET un == [cl EXCEPT !.unsubTried = TRUE,
                                                  !.unsubFailed = ~ok]
                             IN IF ok
                                THEN /\ subs' = [subs EXCEPT
                                                   ![client] = None]
                                     /\ Suspend(t, "unsubscribing", o,
                                                <<>>, 0, un)
                                ELSE /\ UNCHANGED subs
                                     /\ Caught(t, o, un)
                   ELSE Teardown(t, o, cl)
        ELSE /\ connected' = FALSE
             /\ client' = NoLink
             /\ UNCHANGED links
             /\ Finish(t, o, <<>>, "ok", ZeroCall)

\* disconnect() after disableNotifications' stop_notify returned: the flag
\* is cleared and the link is torn down.
DisconnectUnsubscribed(t) ==
  /\ pc[t] = "unsubscribing"
  /\ notificationsEnabled' = FALSE
  /\ UNCHANGED <<debug, connected, client, name, WRITE_CHARACTERISTIC_UUID,
                 NOTIFY_CHARACTERISTIC_UUID, wire, tasks, capture>>
  /\ Teardown(t, op[t], call[t])

\* disconnect() after its try block, whether it completed or raised.
DisconnectFinish(t) ==
  /\ pc[t] = "teardown"
  /\ connected' = FALSE
  /\ client' = NoLink
  /\ UNCHANGED <<debug, name, WRITE_CHARACTERISTIC_UUID,
                 NOTIFY_CHARACTERISTIC_UUID, notificationsEnabled, links,
                 wire, tasks, capture>>
  /\ Finish(t, op[t], <<>>, "ok", call[t])

(* ------------------------ notification buffers ------------------------- *)
\* self._last_notification: None, or the buffer kept.  A kept buffer b is
\* held as <<b>>, so that None differs from an empty buffer.
NoNotification == <<>>
\* data[k], with Python's offsets from 0.
At(data, k) == data[k + 1]
\* The offsets a slice data[a:b] reads: a slice stops at the end of the data.
SliceOffsets(data, a, b) == {k \in a..(b - 1) : k < Len(data)}
\* The offsets struct.unpack(">H", data[a:a+2]) needs: both bytes.
UnpackOffsets(a) == {a, a + 1}

\* The first test of _analyze_notification, letting 2 and 3 bytes through.
TooShortLoose(data) == Len(data) < 2
\* The first test of _analyze_notification: "if len(data) < 4".
TooShort(data) == Len(data) < 4

\* What no handler invocation has left.
NoAnalysis == [by |-> None, len |-> 0, short |-> FALSE, reads |-> {},
               fields |-> {}]

\* _analyze_notification(data): whether it reports the buffer as short, the
\* fields it extracts and the offsets it reads for them.
_analyze_notification(data) ==
  IF TooShort(data)
  THEN [by |-> "notification_handler", len |-> Len(data), short |-> TRUE,
        reads |-> {}, fields |-> {}]
  ELSE LET n == Len(data)
           prefix  == IF n >= 2 THEN UnpackOffsets(0) ELSE {}
           status  == IF n >= 4 THEN UnpackOffsets(2) ELSE {}
           area    == IF n >= 16 THEN SliceOffsets(data, 12, 16) ELSE {}
           scan    == IF n >= 16
                      THEN UNION {IF i + 1 < n THEN UnpackOffsets(i) ELSE {} :
                                  i \in 0..(n - 2)}
                      ELSE {}
           station == IF n >= 8 THEN SliceOffsets(data, 6, 8) ELSE {}
       IN [by |-> "notification_handler", len |-> n, short |-> FALSE,
           reads |-> prefix \cup status \cup area \cup scan \cup station,
           fields |-> {f \in {"prefix", "status", "timer", "station"} :
                         \/ f = "prefix" /\ n >= 2
                         \/ f = "status" /\ n >= 4
                         \/ f = "timer" /\ n >= 16
                         \/ f = "station" /\ n >= 8}]

\* notification_handler(sender, data): analyses the buffer in debug mode and
\* does nothing otherwise.
notification_handler(data) ==
  IF debug
  THEN _analyze_notification(data)
  ELSE [by |-> "notification_handler", len |-> Len(data), short |-> FALSE,
        reads |-> {}, fields |-> {}]

\* The test of status_handler without its status byte part.
QualifiesAnyStatus(data) == Len(data) >= 18
\* The test of status_handler: "len(data) >= 18 and data[2] == 0x02".
Qualifies(data) == Len(data) >= 18 /\ At(data, 2) = 2

\* status_handler's assignment "self._last_notification = data".
Keep(data) == <<data>>

\* status_handler(sender, data) of getStatus: the offset 2 is read only when
\* the length test passed.
status_handler(data) ==
  [by |-> "status_handler", len |-> Len(data), short |-> FALSE,
   reads |-> IF Len(data) >= 18 THEN {2} ELSE {},
   fields |-> IF Qualifies(data) THEN {"capture"} ELSE {}]

\* The kind of a buffer: too short to be a status, a first packet (status
\* byte 0x02), or another packet.
KindOf(data) == IF Len(data) < 18 THEN "short"
                ELSE IF data[3] = 2 THEN "first" ELSE "other"

\* The device sends the buffer data on BleakClient l, and the handler
\* subscribed there runs.
Notify(l, data) ==
  /\ l \in linkUp
  /\ subs[l] # None
  /\ IF subs[l] = "status_handler"
     THEN /\ analysis' = status_handler(data)
          /\ IF Qualifies(data)
             THEN last_notification' = Keep(data)
             ELSE UNCHANGED last_notification
          /\ heard' = heard \cup {KindOf(data)}
     ELSE /\ analysis' = notification_handler(data)
          /\ UNCHANGED <<last_notification, heard>>
  /\ UNCHANGED <<session, links, wire, tasks, locals>>

(* ------------------------------ getStatus ------------------------------ *)
\* The table of getStatus with the two watering modes exchanged.
SubStatusDecodeSwapped(sub_status) ==
  CASE sub_status = 65 -> [mode |-> "single_station_active", active |-> TRUE,
                           mode_code |-> -1]
    [] sub_status = 66 -> [mode |-> "all_stations_active", active |-> TRUE,
                           mode_code |-> -1]
    [] sub_status = 64 -> [mode |-> "idle", active |-> FALSE,
                           mode_code |-> -1]
    [] sub_status = 2  -> [mode |-> "programmed_off", active |-> FALSE,
                           mode_code |-> -1]
    [] OTHER           -> [mode |-> "unknown", active |-> FALSE,
                           mode_code |-> sub_status]
\* The mode and the active flag getStatus gives for a sub-status byte, with
\* the two hexadecimal digits that end the name of an unknown mode.
SubStatusDecode(sub_status) ==
  CASE sub_status = 66 -> [mode |-> "single_station_active", active |-> TRUE,
                           mode_code |-> -1]
    [] sub_status = 65 -> [mode |-> "all_stations_active", active |-> TRUE,
                           mode_code |-> -1]
    [] sub_status = 64 -> [mode |-> "idle", active |-> FALSE,
                           mode_code |-> -1]
    [] sub_status = 2  -> [mode |-> "programmed_off", active |-> FALSE,
                           mode_code |-> -1]
    [] OTHER           -> [mode |-> "unknown", active |-> FALSE,
                           mode_code |-> sub_status]

\* The two timer bytes read least significant byte first.
TimerLittleEndian(data) == At(data, 13) + 256 * At(data, 14)
\* struct.unpack(">H", data[13:15]).
TimerRemaining(data) == 256 * At(data, 13) + At(data, 14)

\* The dictionary getStatus returns when nothing was captured.
NoResponse == [active |-> FALSE, mode |-> "no_response", mode_code |-> -1,
               timer_remaining |-> 0, timer_minutes |-> 0,
               timer_seconds |-> 0, sub_status_code |-> -1,
               raw_response |-> <<>>]

\* The offsets the end of getStatus reads from the buffer it decodes.
ParseReads(kept) ==
  IF kept # NoNotification /\ Len(kept[1]) >= 18
  THEN {3} \cup SliceOffsets(kept[1], 13, 15)
  ELSE {}

\* The end of getStatus: the dictionary made from self._last_notification.
ParseStatus(kept) ==
  IF kept # NoNotification /\ Len(kept[1]) >= 18
  THEN LET data == kept[1]
           d == SubStatusDecode(At(data, 3))
           timer_remaining == TimerRemaining(data)
       IN [active |-> d.active, mode |-> d.mode, mode_code |-> d.mode_code,
           timer_remaining |-> timer_remaining,
           timer_minutes |-> timer_remaining \div 60,
           timer_seconds |-> timer_remaining % 60,
           sub_status_code |-> At(data, 3),
           raw_response |-> data]
  ELSE NoResponse

\* getStatus returns the dictionary.
GetStatusReturn(t, cl) ==
  Finish(t, op[t], cmd[t], "ok",
         [cl EXCEPT !.reads = ParseReads(last_notification),
                    !.returned = ParseStatus(last_notification)])

\* Outcomes of start_notify on BleakClient l: it raises when there is no
\* notify characteristic, otherwise as any operation on the link.
StartNotifyOutcomes(l) ==
  IF NOTIFY_CHARACTERISTIC_UUID = None THEN {FALSE} ELSE LinkOutcomes(l)

\* getStatus() from its entry to the await of the start_notify that installs
\* status_handler; on a session that is not connected, to the exception of
\* __writeCommand.
getStatus(t) ==
  /\ Ready(t)
  /\ last_notification' = NoNotification
  /\ heard' = {}
  /\ UNCHANGED <<session, nextLink, linkUp, tasks, analysis>>
  /\ LET o == Op("getStatus", NoArgs)
     IN IF connected /\ client # NoLink
        THEN /\ UNCHANGED wire
             /\ LET cl == [ZeroCall EXCEPT !.subAtEntry = subs[client]]
                IN \E ok \in StartNotifyOutcomes(client) :
                     IF ok
                     THEN /\ subs' = [subs EXCEPT
                                        ![client] = "status_handler"]
                          /\ Suspend(t, "capturing", o, OnFrame.bytes, 0, cl)
                     ELSE /\ UNCHANGED subs
                          /\ Finish(t, o, OnFrame.bytes, "TransportError",
                                    cl)
        ELSE /\ UNCHANGED <<subs, wire>>
             /\ Finish(t, o, OnFrame.bytes, "NotConnected", ZeroCall)

\* getStatus() after status_handler is installed: __writeCommand(cmd) up to
\* the await of the command write.
GetStatusSend(t) ==
  /\ pc[t] = "capturing"
  /\ WriteCommand(t, op[t], cmd[t])

\* getStatus() after __writeCommand returned: the start_notify that puts
\* self.notification_handler back, or the rest of getStatus when the session
\* is no longer connected.
GetStatusRestore(t) ==
  /\ pc[t] = "restoring"
  /\ UNCHANGED <<session, nextLink, linkUp, wire, tasks, capture>>
  /\ IF connected /\ client # NoLink
     THEN \E ok \in StartNotifyOutcomes(client) :
            IF ok
            THEN /\ subs' = [subs EXCEPT ![client] = "notification_handler"]
                 /\ Suspend(t, "parsing", op[t], cmd[t], 0, call[t])
            ELSE /\ UNCHANGED subs
                 /\ Finish(t, op[t], cmd[t], "TransportError", call[t])
     ELSE /\ UNCHANGED subs
          /\ GetStatusReturn(t, call[t])

\* getStatus() after the handler is put back: the captured buffer is decoded.
GetStatusParse(t) ==
  /\ pc[t] = "parsing"
  /\ UNCHANGED <<session, links, wire, tasks, capture>>
  /\ GetStatusReturn(t, call[t])

(* ------------------------------ callers -------------------------------- *)
\* The caller of task t takes the outcome of its call and is free to make
\* the next one.  The write log is kept while some call is in progress and
\* starts afresh when the session is quiescent.
Return(t) ==
  /\ pc[t] = "done"
  /\ pc'      = [pc EXCEPT ![t] = "idle"]
  /\ op'      = [op EXCEPT ![t] = NoOp]
  /\ cmd'     = [cmd EXCEPT ![t] = <<>>]
  /\ attempt' = [attempt EXCEPT ![t] = 0]
  /\ result'  = [result EXCEPT ![t] = "none"]
  /\ call'    = [call EXCEPT ![t] = ZeroCall]
  /\ wire'    = IF \A u \in tasks \ {t} : pc[u] = "idle" THEN <<>> ELSE wire
  /\ UNCHANGED <<session, links, tasks, capture>>

(* --------------------------- specification ----------------------------- *)
\* The arguments the callers try: small values, and for every packed field
\* the largest value that fits and the first that does not.
Stations == (1..MaxStation) \cup {U8Max + 1}
Minutes  == (0..MaxMinutes) \cup {U16Max \div 60, U16Max \div 60 + 1}
Days     == (0..MaxDays) \cup {U16Max - 1, U16Max + 1}
Programs == (0..MaxProgram) \cup {U16Max - 1, U16Max + 1}
Retries  == 0..MaxRetries
LinkIds  == 1..(MaxLinks + 1)

TaskInit ==
  /\ tasks = {1}
  /\ pc = [t \in tasks |-> "idle"]
  /\ op = [t \in tasks |-> NoOp]
  /\ cmd = [t \in tasks |-> <<>>]
  /\ attempt = [t \in tasks |-> 0]
  /\ result = [t \in tasks |-> "none"]
  /\ call = [t \in tasks |-> ZeroCall]

\* The state after __init__ (and the caller's choice of debug mode).
Init ==
  /\ debug \in BOOLEAN
  /\ connected = FALSE
  /\ client = NoLink
  /\ name = None
  /\ WRITE_CHARACTERISTIC_UUID = None
  /\ NOTIFY_CHARACTERISTIC_UUID = None
  /\ notificationsEnabled = FALSE
  /\ nextLink = 0
  /\ linkUp = {}
  /\ subs = [l \in LinkIds |-> None]
  /\ wire = <<>>
  /\ last_notification = NoNotification
  /\ heard = {}
  /\ analysis = NoAnalysis
  /\ TaskInit

Next ==
  \E t \in tasks :
    \/ on(t)
    \/ off(t)
    \/ stopWatering(t)
    \/ \E days \in Days : offDays(t, days)
    \/ \E program \in Programs : runProgram(t, program)
    \/ \E minutes \in Minutes : startWateringAll(t, minutes)
    \/ \E station \in Stations, minutes \in Minutes :
         startWatering(t, station, minutes)
    \/ WriteCommit(t)
    \/ \E retries \in Retries : connect(t, retries)
    \/ ConnectRetry(t)
    \/ ConnectEstablished(t)
    \/ enableNotifications(t)
    \/ EnableNotificationsDone(t)
    \/ disableNotifications(t)
    \/ DisableNotificationsDone(t)
    \/ disconnect(t)
    \/ DisconnectUnsubscribed(t)
    \/ DisconnectFinish(t)
    \/ getStatus(t)
    \/ GetStatusSend(t)
    \/ GetStatusRestore(t)
    \/ GetStatusParse(t)
    \/ Return(t)

Spec == Init /\ [][Next]_vars

\* Buffers the device may send: lengths around every length test of the
\* handlers, and buffers of status length with every status byte,
\* sub-status byte and timer value tried.
Lengths        == {0, 3, 4, 17} \cup (18..MaxNotifLen)
StatusBytes    == {1, 2}
SubStatusBytes == {2, 64, 65, 66, 67}
Timers         == {0, 300, U16Max}
Notification(len, status, sub_status, timer) ==
  [i \in 1..len |-> CASE i = 1  -> 50
                      [] i = 2  -> 16
                      [] i = 3  -> status
                      [] i = 4  -> sub_status
                      [] i = 14 -> timer \div 256
                      [] i = 15 -> timer % 256
                      [] OTHER  -> 0]
Notifications ==
  {Notification(len, 2, 64, 0) : len \in Lengths}
  \cup {Notification(18, status, sub_status, timer) :
          status \in StatusBytes, sub_status \in SubStatusBytes,
          timer \in Timers}

\* A session on which connect() has succeeded, in debug mode or not.
StatusInit ==
  /\ debug \in BOOLEAN
  /\ connected = TRUE
  /\ client = 1
  /\ name = "SOLEM BLIP"
  /\ WRITE_CHARACTERISTIC_UUID =
       IF debug THEN DISCOVERED_WRITE_UUID ELSE KNOWN_WRITE_UUID
  /\ NOTIFY_CHARACTERISTIC_UUID =
       IF debug THEN DISCOVERED_NOTIFY_UUID ELSE KNOWN_NOTIFY_UUID
  /\ notificationsEnabled = FALSE
  /\ nextLink = 1
  /\ linkUp = {1}
  /\ subs = [l \in LinkIds |-> None]
  /\ wire = <<>>
  /\ last_notification = NoNotification
  /\ heard = {}
  /\ analysis = NoAnalysis
  /\ TaskInit

\* Status queries on a connected session while the device sends buffers.
StatusNext ==
  \/ \E t \in tasks :
       \/ getStatus(t)
       \/ GetStatusSend(t)
       \/ WriteCommit(t)
       \/ GetStatusRestore(t)
       \/ GetStatusParse(t)
       \/ Return(t)
  \/ \E l \in LinkIds, data \in Notifications : Notify(l, data)

StatusSpec == StatusInit /\ [][StatusNext]_vars

\* Two caller tasks on a session on which connect() has succeeded, with
\* notifications enabled or not.
ConcInit ==
  /\ debug = FALSE
  /\ connected = TRUE
  /\ client = 1
  /\ name = "SOLEM BLIP"
  /\ WRITE_CHARACTERISTIC_UUID = KNOWN_WRITE_UUID
  /\ NOTIFY_CHARACTERISTIC_UUID = KNOWN_NOTIFY_UUID
  /\ notificationsEnabled \in BOOLEAN
  /\ nextLink = 1
  /\ linkUp = {1}
  /\ subs = [l \in LinkIds |->
               IF l = 1 /\ notificationsEnabled
               THEN "notification_handler" ELSE None]
  /\ wire = <<>>
  /\ last_notification = NoNotification
  /\ heard = {}
  /\ analysis = NoAnalysis
  /\ tasks = {1, 2}
  /\ pc = [t \in tasks |-> "idle"]
  /\ op = [t \in tasks |-> NoOp]
  /\ cmd = [t \in tasks |-> <<>>]
  /\ attempt = [t \in tasks |-> 0]
  /\ result = [t \in tasks |-> "none"]
  /\ call = [t \in tasks |-> ZeroCall]

\* Command sends and disconnects of the two tasks, interleaved at every
\* await.
ConcNext ==
  \E t \in tasks :
    \/ on(t)
    \/ stopWatering(t)
    \/ WriteCommit(t)
    \/ disconnect(t)
    \/ DisconnectUnsubscribed(t)
    \/ DisconnectFinish(t)
    \/ Return(t)

ConcSpec == ConcInit /\ [][ConcNext]_vars

(* ------------------------------ properties ----------------------------- *)
\* The characteristic writes the current call of task t has issued, oldest
\* first.
RECURSIVE LastN(_, _)
LastN(q, n) == IF n = 0 \/ q = <<>> THEN <<>>
               ELSE Append(LastN(SubSeq(q, 1, Len(q) - 1), n - 1), q[Len(q)])
IssuedBy(t) == LET w == wire IN SelectSeq(w, LAMBDA e : e.task = t)
CallWrites(t) == LastN(IssuedBy(t), call[t].nwrites)
AllWritesOk(t) == \A i \in 1..Len(CallWrites(t)) : CallWrites(t)[i].ok

\* A watering command frame: opcode 31 05 and subcode 11 or 12.
IsWateringFrame(b) ==
  Len(b) = 7 /\ b[1] = 49 /\ b[2] = 5 /\ b[3] \in {17, 18}
DurationField(b) == b[6] * 256 + b[7]

\* C1: a command call that enters the sequencer on a connected session with
\* a resolved write characteristic, and whose link writes all succeed,
\* returns normally after exactly two writes on the link: first the command
\* frame the method packed, then the commit frame 3B 00; no command call
\* ever issues more than two writes.
C1_TwoWritesCommandThenCommit ==
  \A t \in tasks :
    op[t].name \in CommandNames =>
      /\ call[t].nwrites <= 2
      /\ (pc[t] = "commit" /\ call[t].passedGuards) =>
           /\ call[t].nwrites = 1
           /\ CallWrites(t)[1].data = FrameOf(op[t]).bytes
      /\ (pc[t] = "done" /\ call[t].passedGuards /\ AllWritesOk(t)) =>
           /\ result[t] = "ok"
           /\ call[t].nwrites = 2
           /\ CallWrites(t)[1].data = FrameOf(op[t]).bytes
           /\ CallWrites(t)[2].data = <<59, 0>>
           /\ CallWrites(t)[1].link = CallWrites(t)[2].link

\* C1 witness: a station-watering call has returned normally after its two
\* writes, on a session with notifications enabled.
C1_Witness ==
  \E t \in tasks :
    /\ pc[t] = "done" /\ op[t].name = "startWatering" /\ result[t] = "ok"
    /\ call[t].nwrites = 2 /\ AllWritesOk(t)
    /\ notificationsEnabled

\* C2: a start-watering call (one station or all) whose duration is below
\* 60 seconds raises ValueError in the step that makes the call, and that
\* step changes neither the write log nor the connection state nor the
\* links; every watering command frame in the write log carries a duration
\* of at least 60 seconds.
C2_Rejected(t) ==
  /\ op[t].name \in {"startWatering", "startWateringAll"}
  /\ op[t].args.minutes * 60 < 60
C2_BelowFloorRejectedBeforeTransmission ==
  /\ [](\A t \in tasks :
          /\ (pc[t] # "idle" /\ C2_Rejected(t)) =>
               (pc[t] = "done" /\ result[t] = "ValueError"
                  /\ call[t].nwrites = 0)
          /\ \A i \in 1..Len(wire) :
               IsWateringFrame(wire[i].data) =>
                 DurationField(wire[i].data) >= 60)
  /\ [][\A t \in tasks :
          (pc[t] = "idle" /\ pc'[t] # "idle" /\ C2_Rejected(t)') =>
            UNCHANGED <<session, links, wire>>]_vars

\* C2 witness: a below-floor request was rejected on a connected session
\* that is able to write.
C2_Witness ==
  \E t \in tasks :
    /\ pc[t] = "done" /\ C2_Rejected(t) /\ result[t] = "ValueError"
    /\ connected /\ client \in linkUp /\ WRITE_CHARACTERISTIC_UUID # None

\* C3: a station-watering call whose station is outside 1..3 issues no
\* characteristic write and ends with ValueError.
C3_ZoneOutOfRangeRejected ==
  \A t \in tasks :
    (op[t].name = "startWatering" /\ op[t].args.station \notin 1..3) =>
      /\ call[t].nwrites = 0
      /\ pc[t] = "done" => result[t] = "ValueError"

\* The documented layout of the station-watering frame, and of the
\* all-stations frame, for a duration of secs seconds.
StationLayout(station, secs) ==
  <<49, 5, 18, station, 0, secs \div 256, secs % 256>>
AllLayout(secs) == <<49, 5, 17, 0, 0, secs \div 256, secs % 256>>

\* A station-watering call with a station in 1..3 and at least one minute.
C4_Case(t) ==
  /\ pc[t] # "idle" /\ op[t].name = "startWatering"
  /\ op[t].args.station \in 1..3
  /\ op[t].args.minutes * 60 >= 60

\* C4 as stated: for every station in 1..3 and every duration of at least
\* 60 seconds the station-watering frame is exactly 8 bytes and matches the
\* layout 31 05 12 [station] 00 [seconds, big-endian].
C4_FrameIsEightBytes ==
  \A t \in tasks :
    C4_Case(t) =>
      /\ Len(cmd[t]) = 8
      /\ SubSeq(cmd[t], 1, 7) =
           StationLayout(op[t].args.station, op[t].args.minutes * 60)

\* C4 amended: for every station in 1..3 and every whole number of minutes
\* whose seconds fit 16 bits (60..65535 s), the station-watering frame is
\* exactly 7 bytes, 31 05 12 [station] 00 [seconds, big-endian], and it is
\* the frame written to the link.
C4_FrameIsSevenBytes ==
  \A t \in tasks :
    (C4_Case(t) /\ op[t].args.minutes * 60 <= U16Max) =>
      /\ Len(cmd[t]) = 7
      /\ cmd[t] = StationLayout(op[t].args.station, op[t].args.minutes * 60)
      /\ call[t].nwrites >= 1 => CallWrites(t)[1].data = cmd[t]

\* C4 witness: station 3 was watered for the longest duration that fits,
\* and the frame reached the link.
C4_Witness ==
  \E t \in tasks :
    /\ C4_Case(t) /\ op[t].args.station = 3
    /\ op[t].args.minutes = U16Max \div 60
    /\ pc[t] = "done" /\ result[t] = "ok"

\* C5: for every whole number of minutes from 1 up to the 16-bit limit the
\* all-stations frame is the 7 bytes 31 05 11 00 00 followed by the seconds
\* as a 16-bit big-endian integer; 120 seconds give 31 05 11 00 00 00 78.
C5_AllStationsFrame ==
  \A t \in tasks :
    (/\ pc[t] # "idle" /\ op[t].name = "startWateringAll"
     /\ op[t].args.minutes >= 1 /\ op[t].args.minutes * 60 <= U16Max) =>
      /\ cmd[t] = AllLayout(op[t].args.minutes * 60)
      /\ Len(cmd[t]) = 7
      /\ op[t].args.minutes * 60 = 120 => cmd[t] = <<49, 5, 17, 0, 0, 0, 120>>
      /\ call[t].nwrites >= 1 => CallWrites(t)[1].data = cmd[t]

\* C5 witness: a 120-second all-stations request was written to the link.
C5_Witness ==
  \E t \in tasks :
    /\ pc[t] = "done" /\ op[t].name = "startWateringAll"
    /\ op[t].args.minutes = 2 /\ result[t] = "ok"
    /\ CallWrites(t)[1].data = <<49, 5, 17, 0, 0, 0, 120>>

\* C6: in every state, the frame of stop is 31 05 15 00 FF 00 00, of on
\* 31 05 A0 00 01 00 00, of off 31 05 C0 00 00 00 00, of offDays(days)
\* 31 05 C0 [days, big-endian] 00 00 and of runProgram(p)
\* 31 05 14 [p, big-endian] 00 00, for every argument that fits 16 bits;
\* and a frame that is written is written as packed.
C6_FixedShapeFrames ==
  \A t \in tasks :
    pc[t] # "idle" =>
      /\ op[t].name = "stopWatering" => cmd[t] = <<49, 5, 21, 0, 255, 0, 0>>
      /\ op[t].name = "on"  => cmd[t] = <<49, 5, 160, 0, 1, 0, 0>>
      /\ op[t].name = "off" => cmd[t] = <<49, 5, 192, 0, 0, 0, 0>>
      /\ (op[t].name = "offDays" /\ op[t].args.days \in 0..U16Max) =>
           cmd[t] = <<49, 5, 192, op[t].args.days \div 256,
                      op[t].args.days % 256, 0, 0>>
      /\ (op[t].name = "runProgram" /\ op[t].args.program \in 0..U16Max) =>
           cmd[t] = <<49, 5, 20, op[t].args.program \div 256,
                      op[t].args.program % 256, 0, 0>>
      /\ (op[t].name \in {"stopWatering", "on", "off", "offDays",
                          "runProgram"} /\ call[t].nwrites >= 1) =>
           CallWrites(t)[1].data = cmd[t]

\* C6 witness: offDays with a two-byte day count was written on a session
\* with notifications enabled, on a link that is not the first one.
C6_Witness ==
  \E t \in tasks :
    /\ pc[t] = "done" /\ op[t].name = "offDays" /\ result[t] = "ok"
    /\ op[t].args.days = U16Max - 1
    /\ notificationsEnabled /\ client > 1

\* The generic frame parser: a 16-bit opcode, an 8-bit subcode, then the
\* arguments in the shape of the command the subcode names (station, reserved
\* byte and duration for 0x12; two 16-bit arguments otherwise).
FieldValue(b) == IF Len(b) = 1 THEN b[1] ELSE b[1] * 256 + b[2]
RECURSIVE UnpackFields(_, _)
UnpackFields(fmt, b) ==
  IF fmt = <<>> THEN <<>>
  ELSE <<FieldValue(SubSeq(b, 1, Head(fmt)))>>
         \o UnpackFields(Tail(fmt), SubSeq(b, Head(fmt) + 1, Len(b)))
ArgumentShape(subcode) == IF subcode = 18 THEN <<1, 1, 2>> ELSE <<2, 2>>
ParseFrame(b) ==
  [opcode  |-> FieldValue(SubSeq(b, 1, 2)),
   subcode |-> b[3],
   args    |-> UnpackFields(ArgumentShape(b[3]), SubSeq(b, 4, Len(b)))]

\* The opcode, subcode and arguments of the command of call o.
Semantic(o) ==
  CASE o.name = "on"               ->
         [opcode |-> 12549, subcode |-> 160, args |-> <<1, 0>>]
    [] o.name = "off"              ->
         [opcode |-> 12549, subcode |-> 192, args |-> <<0, 0>>]
    [] o.name = "stopWatering"     ->
         [opcode |-> 12549, subcode |-> 21, args |-> <<255, 0>>]
    [] o.name = "offDays"          ->
         [opcode |-> 12549, subcode |-> 192, args |-> <<o.args.days, 0>>]
    [] o.name = "runProgram"       ->
         [opcode |-> 12549, subcode |-> 20, args |-> <<o.args.program, 0>>]
    [] o.name = "startWateringAll" ->
         [opcode |-> 12549, subcode |-> 17,
          args |-> <<0, o.args.minutes * 60>>]
    [] o.name = "startWatering"    ->
         [opcode |-> 12549, subcode |-> 18,
          args |-> <<o.args.station, 0, o.args.minutes * 60>>]

\* Every command call the callers try.
CommandCalls ==
  {Op("on", NoArgs), Op("off", NoArgs), Op("stopWatering", NoArgs)}
  \cup {Op("offDays", [NoArgs EXCEPT !.days = d]) : d \in Days}
  \cup {Op("runProgram", [NoArgs EXCEPT !.program = p]) : p \in Programs}
  \cup {Op("startWateringAll", [NoArgs EXCEPT !.minutes = m]) :
          m \in {m \in Minutes : m >= 1}}
  \cup {Op("startWatering", [NoArgs EXCEPT !.station = z, !.minutes = m]) :
          z \in Stations, m \in {m \in Minutes : m >= 1}}

\* off() is off(days) with a day count of 0.
Kind(o) == IF o.name = "offDays" THEN "off" ELSE o.name
SameCommand(o1, o2) == Kind(o1) = Kind(o2) /\ o1.args = o2.args

\* C7: parsing the frame a command call has packed recovers the opcode, the
\* subcode and the arguments of that command, and no different command the
\* driver can encode packs the same bytes.
C7_RoundTrip ==
  \A t \in tasks :
    (pc[t] # "idle" /\ op[t].name \in CommandNames /\ cmd[t] # <<>>) =>
      /\ ParseFrame(cmd[t]) = Semantic(op[t])
      /\ \A o \in CommandCalls :
           (FrameOf(o).ok /\ FrameOf(o).bytes = cmd[t]) =>
             SameCommand(o, op[t])

\* C7 witness: a station frame with a two-byte duration whose bytes differ
\* was packed and written.
C7_Witness ==
  \E t \in tasks :
    /\ pc[t] = "done" /\ op[t].name = "startWatering" /\ result[t] = "ok"
    /\ op[t].args.station = 2 /\ op[t].args.minutes = U16Max \div 60
    /\ ParseFrame(CallWrites(t)[1].data).args = <<2, 0, 65520>>

C9_ConnectExhaustsAttempts ==
  \A t \in tasks :
    (/\ pc[t] = "done" /\ op[t].name = "connect"
     /\ call[t].firstOk = 0) =>
      /\ result[t] = "ConnectionFailed"
      /\ call[t].nattempts = op[t].args.retries
      /\ ~connected

\* C10: disconnect always returns normally, with connected false and the
\* link handle cleared, whatever the unsubscribe and the teardown did.
C10_DisconnectNeverFails ==
  \A t \in tasks :
    op[t].name = "disconnect" =>
      /\ pc[t] \in {"unsubscribing", "teardown", "done"}
      /\ result[t] \in {"none", "ok"}
      /\ pc[t] = "done" =>
           (result[t] = "ok" /\ ~connected /\ client = NoLink)

\* C10 witness: disconnect has returned on a session whose notifications
\* flag is still set, that is, after the unsubscribe raised; the link it
\* could not unsubscribe from is still up.
C10_Witness ==
  \E t \in tasks :
    /\ pc[t] = "done" /\ op[t].name = "disconnect" /\ result[t] = "ok"
    /\ notificationsEnabled /\ linkUp # {}


\* C11: when disconnect is called on a connected session with notifications
\* enabled and stop_notify fails, the link's disconnect is still called.
C11_TeardownDespiteUnsubscribeFailure ==
  \A t \in tasks :
    (/\ op[t].name = "disconnect"
     /\ pc[t] \in {"teardown", "done"}
     /\ call[t].unsubFailed)
    => call[t].teardownTried

\* The calls that need a connected session.
NeedsConnection == CommandNames \cup {"getStatus", "enableNotifications"}

\* Task t starts a call that needs a connected session on a session that is
\* not connected.
C12_Case(t) ==
  /\ pc[t] = "idle"
  /\ pc'[t] # "idle"
  /\ op'[t].name \in NeedsConnection
  /\ ~connected \/ client = NoLink

\* The exception the arguments of call o raise before the session is looked
\* at, "none" when they are accepted.
ArgumentError(o) ==
  IF o.name \notin CommandNames THEN "none"
  ELSE IF o.name \in {"startWatering", "startWateringAll"}
          /\ o.args.minutes < 1 THEN "ValueError"
  ELSE IF ~FrameOf(o).ok THEN "StructError"
  ELSE "none"

\* C12 as stated: every command, getStatus and enableNotifications called on
\* a session that is not connected fails at once with the not-connected
\* error, writes and subscribes nothing and leaves the session as it was.
C12_AlwaysNotConnectedError ==
  [][\A t \in tasks :
       C12_Case(t) => /\ pc'[t] = "done"
                      /\ result'[t] = "NotConnected"
                      /\ UNCHANGED <<session, links, wire>>]_vars

\* C12 amended: such a call fails at once, writes and subscribes nothing and
\* leaves the session as it was; the error is the not-connected error unless
\* the arguments are rejected first, and then it is that argument's error.
C12_FailsFastWhenNotConnected ==
  [][\A t \in tasks :
       C12_Case(t) =>
         /\ pc'[t] = "done"
         /\ result'[t] = IF ArgumentError(op'[t]) = "none"
                         THEN "NotConnected" ELSE ArgumentError(op'[t])
         /\ call'[t].nwrites = 0
         /\ UNCHANGED <<session, links, wire>>]_vars

C12_Witness ==
  \E t \in tasks :
    /\ pc[t] = "done"
    /\ op[t].name = "getStatus"
    /\ result[t] = "NotConnected"
    /\ ~connected
    /\ nextLink > 0

\* C13: a write that fails inside __writeCommand ends the call with that
\* error: after a failed command write no commit frame is written and the
\* command frame is not written again, after a failed commit write nothing
\* more is written, and one call issues at most two writes.
C13_TransportFailureSurfaced ==
  \A t \in tasks :
    op[t].name \in CommandNames \cup {"getStatus"} =>
      LET w == CallWrites(t)
      IN /\ Len(w) <= 2
         /\ \A i \in DOMAIN w :
              ~w[i].ok => /\ i = Len(w)
                          /\ pc[t] = "done"
                          /\ result[t] = "TransportError"
         /\ \A i \in DOMAIN w : w[i].data = cmd[t] <=> i = 1

C13_Witness ==
  \E t \in tasks :
    /\ op[t].name \in CommandNames
    /\ pc[t] = "done"
    /\ result[t] = "TransportError"
    /\ Len(CallWrites(t)) = 1
    /\ ~CallWrites(t)[1].ok


\* Task t has a getStatus call that returned a dictionary.
StatusReturned(t) ==
  /\ op[t].name = "getStatus"
  /\ pc[t] = "done"
  /\ result[t] = "ok"

\* C14: a status decoded from a captured first packet has mode and active
\* flag by the table 0x42 single station / active, 0x41 all stations /
\* active, 0x40 idle / inactive, 0x02 programmed off / inactive, any other
\* byte unknown / inactive, and its sub-status code is the byte received.
C14_StatusDecodeTable ==
  \A t \in tasks :
    (StatusReturned(t) /\ last_notification # NoNotification) =>
      LET data == last_notification[1]
          s == data[4]
          r == call[t].returned
      IN /\ Len(data) >= 18 /\ data[3] = 2
         /\ r.sub_status_code = s
         /\ r.raw_response = data
         /\ s = 66 => r.mode = "single_station_active" /\ r.active
         /\ s = 65 => r.mode = "all_stations_active" /\ r.active
         /\ s = 64 => r.mode = "idle" /\ ~r.active
         /\ s = 2  => r.mode = "programmed_off" /\ ~r.active
         /\ s \notin {66, 65, 64, 2} =>
              r.mode = "unknown" /\ r.mode_code = s /\ ~r.active

C14_Witness ==
  \E t \in tasks :
    /\ StatusReturned(t)
    /\ last_notification # NoNotification
    /\ last_notification[1][4] = 66
    /\ call[t].returned.mode = "single_station_active"

\* C15: when status_handler was given no first packet of at least 18 bytes
\* since getStatus started, getStatus returns the no-response status:
\* inactive, timer 0, no sub-status code, no raw response.
C15_OnlyFirstPacketsDecoded ==
  \A t \in tasks :
    (StatusReturned(t) /\ "first" \notin heard) =>
      LET r == call[t].returned
      IN /\ r.mode = "no_response"
         /\ ~r.active
         /\ r.timer_remaining = 0 /\ r.timer_minutes = 0
         /\ r.timer_seconds = 0
         /\ r.sub_status_code = -1
         /\ r.raw_response = <<>>

C15_Witness ==
  \E t \in tasks :
    /\ StatusReturned(t)
    /\ heard = {"short", "other"}
    /\ call[t].returned.mode = "no_response"

\* C16: every offset a handler or getStatus reads lies inside the buffer it
\* reads from; from a buffer of fewer than 4 bytes no field is extracted,
\* and the analysis reports it as short.
C16_ReadsInsideBuffer ==
  /\ analysis.reads \subseteq 0..(analysis.len - 1)
  /\ analysis.len < 4 =>
       /\ analysis.reads = {}
       /\ analysis.fields = {}
       /\ (analysis.by = "notification_handler" /\ debug) => analysis.short
  /\ analysis.short => analysis.len < 4
  /\ \A t \in tasks :
       StatusReturned(t) =>
         /\ call[t].reads \subseteq
              0..(Len(call[t].returned.raw_response) - 1)
         /\ call[t].returned.mode # "no_response" =>
              call[t].reads = {3, 13, 14}

C16_Witness ==
  /\ debug
  /\ analysis.by = "notification_handler"
  /\ analysis.len = 3
  /\ analysis.short

\* C18: a buffer status_handler has kept is not replaced by a later first
\* packet: the status returned is decoded from the first one kept.
C18_FirstCaptureKept ==
  [][(last_notification # NoNotification
        /\ last_notification' # NoNotification)
       => last_notification' = last_notification]_vars

\* C19: when getStatus ends after its capture was installed, by returning a
\* status or by a transport error of the command or commit write, the
\* handler subscribed on the session's link is notification_handler again.
C19_CaptureIsTemporary ==
  \A t \in tasks :
    (/\ op[t].name = "getStatus"
     /\ pc[t] = "done"
     /\ call[t].nwrites > 0
     /\ \/ result[t] = "ok"
        \/ /\ result[t] = "TransportError"
           /\ ~AllWritesOk(t)
     /\ client # NoLink)
    => subs[client] = "notification_handler"

\* C20: when a handler is subscribed on the session's link at the time
\* disconnect is called, disconnect calls stop_notify before it tears the
\* link down.
C20_DisconnectUnsubscribes ==
  \A t \in tasks :
    (/\ op[t].name = "disconnect"
     /\ pc[t] \in {"unsubscribing", "teardown", "done"}
     /\ call[t].subAtEntry # None)
    => call[t].unsubTried


\* C17: every characteristic write is issued while the session is connected
\* and holds a link, and on the link the session holds at that time: none
\* is issued after disconnect has cleared the flag and the link handle,
\* whatever the interleaving of the command send and the disconnect.
C17_NoWriteWhileDisconnected ==
  \A i \in DOMAIN wire :
    /\ wire[i].connected
    /\ wire[i].client # NoLink
    /\ wire[i].link = wire[i].client

C17_Witness ==
  \E t \in tasks :
    /\ op[t].name \in CommandNames
    /\ pc[t] = "done"
    /\ result[t] = "AttributeError"
    /\ Len(CallWrites(t)) = 1
    /\ ~connected
    /\ client = NoLink


\* C21: whenever connect ends with the connection-failed error, on any
\* failure path, the session is not connected.
C21_FailedConnectLeavesDisconnected ==
  \A t \in tasks :
    (/\ op[t].name = "connect"
     /\ pc[t] = "done"
     /\ result[t] = "ConnectionFailed")
    => ~connected

\* C24: at most one BleakClient of the instance has its link established.
C24_AtMostOneLink == Cardinality(linkUp) <= 1

\* C25: a connect call that returns normally leaves the session connected,
\* with its link handle set, whatever the retries argument.
C25_ConnectReturnsConnected ==
  \A t \in tasks :
    (/\ op[t].name = "connect"
     /\ pc[t] = "done"
     /\ result[t] = "ok")
    => (connected /\ client # NoLink)

\* C26: the notifications-enabled flag is set only on a session that is
\* connected and holds a link handle.
C26_EnabledOnlyWhenConnected ==
  notificationsEnabled => (connected /\ client # NoLink)


\* C22: the timer_remaining of a status decoded from a captured first
\* packet is byte 13 * 256 + byte 14 of that packet and lies in 0..65535,
\* timer_minutes * 60 + timer_seconds equals it with 0 <= timer_seconds <
\* 60; when nothing was captured the three timer values are 0.
C22_TimerFixedOffsetRead ==
  \A t \in tasks :
    StatusReturned(t) =>
      LET r == call[t].returned
      IN /\ last_notification # NoNotification =>
              LET data == last_notification[1]
              IN /\ Len(data) >= 18 /\ data[3] = 2
                 /\ r.timer_remaining = data[14] * 256 + data[15]
         /\ last_notification = NoNotification => r.timer_remaining = 0
         /\ r.timer_remaining \in 0..U16Max
         /\ r.timer_minutes * 60 + r.timer_seconds = r.timer_remaining
         /\ r.timer_seconds \in 0..59
         /\ r.timer_minutes >= 0

C22_Witness ==
  \E t \in tasks :
    /\ StatusReturned(t)
    /\ last_notification # NoNotification
    /\ last_notification[1][14] = 1
    /\ last_notification[1][15] = 44
    /\ call[t].returned.timer_remaining = 300
    /\ call[t].returned.timer_minutes = 5
    /\ call[t].returned.timer_seconds = 0


\* A logged write of a command frame, as opposed to the commit frame.
IsCommandWrite(e) == e.data # CommitFrame

\* C23: on a connected session used by two tasks, a command frame that was
\* written is followed by the commit frame of the same call before the
\* command frame of another call is written.
C23_OneCommandSequenceAtATime ==
  \A i \in 1..(Len(wire) - 1) :
    (/\ IsCommandWrite(wire[i])
     /\ wire[i].ok
     /\ wire[i].task # wire[i + 1].task)
    => ~IsCommandWrite(wire[i + 1])

====
